---------------------------- MODULE Spec2Model ----------------------------
(***************************************************************************)
(* Model of the Result<T, E> container of cpp_rust_result.hpp (the second, *)
(* Storage-union definition, lines 278-503): tagged storage, factories,    *)
(* move discipline, combinators, extraction operations and the per-        *)
(* instantiation hook registry (log_hook, terminate_hook, hook_mutex).     *)
(*                                                                         *)
(* A program instantiates Result with one error type E (variable etype)    *)
(* and the success types of TTypes; an instantiation (T, E) is therefore   *)
(* named by its T.  Containers live in the caller's variables a and b.     *)
(* In Spec a member function is one step of the thread that calls it; what *)
(* it did on the way (log step, termination step, callable invoked, value  *)
(* returned) is recorded in ret, the caller's view of the finished call,   *)
(* until the caller resumes with its next statement.                       *)
(*                                                                         *)
(* RegistrySpec runs two threads against the hook registry and splits      *)
(* every registry operation where hook_mutex is locked and unlocked; stack *)
(* holds each thread's call frames, a hook that calls back into the        *)
(* library pushing the frame of its call.                                  *)
(***************************************************************************)
EXTENDS Integers, Sequences, FiniteSets, TLC

(* ------------------------------ bounds -------------------------------- *)
MaxVal == 2            \* success payloads are 0..MaxVal
MaxErrLen == 16        \* longest std::string error a callable may build

(* ------------------------------ domains ------------------------------- *)
Threads == {"t1"}
TTypes == {"int", "double"}
ETypes == {"string", "cstr", "int"}
Slots == {"a", "b"}
Vals == 0..MaxVal

Null == "<null>"          \* an empty std::function / no object
Free == "<free>"          \* hook_mutex not owned
Raw == "<raw>"            \* the union member that is not constructed
NullPtr == "<nullptr>"    \* a const char* error that is the null pointer
NoObj == [none |-> TRUE]

LogHooks == {"logA"}                  \* a log hook returns normally
TermHooks == {"silent", "throwing"}     \* a termination hook returns or throws
Contexts == {"", "ctx"}               \* context arguments
Expectations == {"must work"}         \* expect's argument
Fallbacks == {1}                      \* default_val arguments, fallback() results

\* the errors a caller passes to Err(e), per error type
InputErrs(et) ==
  CASE et = "string" -> {"boom"}
    [] et = "cstr"   -> {NullPtr, "io"}
    [] et = "int"    -> {42}

VARIABLES etype, objs, log_hook, terminate_hook, hook_mutex, ret, halted, stack

vars == <<etype, objs, log_hook, terminate_hook, hook_mutex, ret, halted, stack>>

(* --------------------------- pure helpers ----------------------------- *)
Digit(d) ==
  CASE d = 0 -> "0" [] d = 1 -> "1" [] d = 2 -> "2" [] d = 3 -> "3"
    [] d = 4 -> "4" [] d = 5 -> "5" [] d = 6 -> "6" [] d = 7 -> "7"
    [] d = 8 -> "8" [] d = 9 -> "9"

RECURSIVE NatToString(_)
NatToString(n) ==
  IF n < 10 THEN Digit(n) ELSE NatToString(n \div 10) \o Digit(n % 10)

\* errorToString: the generic overload streams the value (operator<<), the
\* std::string overload returns it verbatim, the const char* overload maps
\* the null pointer to "nullptr error".
errorToString(et, err) ==
  CASE et = "string" -> err
    [] et = "cstr"   -> IF err = NullPtr THEN "nullptr error" ELSE err
    [] et = "int"    -> IF err < 0 THEN "-" \o NatToString(-err)
                                   ELSE NatToString(err)

\* T{} and E{}
DefaultT == 0
DefaultE(et) ==
  CASE et = "string" -> ""
    [] et = "cstr"   -> NullPtr
    [] et = "int"    -> 0

\* private constructors Result(OkTag, T&&) / Result(ErrTag, E&&)
CtorOk(T, val) == [T |-> T, is_ok |-> TRUE, value |-> val, error |-> Raw]
CtorErr(T, err) == [T |-> T, is_ok |-> FALSE, value |-> Raw, error |-> err]

\* factories
Ok(T, val) == CtorOk(T, val)
Err(T, err) == CtorErr(T, err)

isOk(c) == c.is_ok

\* mutant: the negation is forgotten
isErr_unnegated(c) == c.is_ok
isErr(c) == ~c.is_ok

\* formatError(context)
formatError(c, et, context) ==
  LET prefix == IF context # "" THEN context \o ": " ELSE ""
  IN  IF ~c.is_ok THEN prefix \o errorToString(et, c.error)
                  ELSE prefix \o "Attempted to unwrapErr an Ok value"

\* What a payload may hold after std::move took it: scalars and pointers
\* are copied; a moved-from std::string is valid but unspecified (the
\* implementations leave it unchanged or empty).
MovedFromE(et, err) == IF et = "string" THEN {err, ""} ELSE {err}
MovedFromT(val) == {val}

NoRet == [op |-> "none"]

Live(s) == objs[s] # NoObj
\* thread t is between two calls
Idle(t) == ret[t] = NoRet /\ ~halted

(* ------------------------------- Init --------------------------------- *)
Init ==
  /\ etype \in ETypes
  /\ objs = [s \in Slots |-> NoObj]
  /\ log_hook = [T \in TTypes |-> Null]
  /\ terminate_hook = [T \in TTypes |-> Null]
  /\ hook_mutex = [T \in TTypes |-> Free]
  /\ ret = [t \in Threads |-> NoRet]
  /\ halted = FALSE
  /\ stack = [t \in Threads |-> <<>>]

(* ----------------------------- factories ------------------------------ *)
MakeOk(t, s, T, val) ==
  /\ Idle(t) /\ ~Live(s)
  /\ objs' = [objs EXCEPT ![s] = Ok(T, val)]
  /\ ret' = [ret EXCEPT ![t] = [op |-> "Ok", dst |-> s]]
  /\ UNCHANGED <<stack, etype, log_hook, terminate_hook, hook_mutex, halted>>

MakeErr(t, s, T, err) ==
  /\ Idle(t) /\ ~Live(s)
  /\ objs' = [objs EXCEPT ![s] = Err(T, err)]
  /\ ret' = [ret EXCEPT ![t] = [op |-> "Err", dst |-> s]]
  /\ UNCHANGED <<stack, etype, log_hook, terminate_hook, hook_mutex, halted>>

(* --------------------- destruction and relocation --------------------- *)
\* mutant: the destructor of the other member
destroy_inactive_member(c) == IF c.is_ok THEN "error" ELSE "value"
\* destroy(): the destructor of the member the discriminant names
destroy(c) == IF c.is_ok THEN "value" ELSE "error"

\* the storage destroy() leaves: the member it destroyed is raw again
Destroyed(c) ==
  IF destroy(c) = "value" THEN [c EXCEPT !.value = Raw] ELSE [c EXCEPT !.error = Raw]

\* ~Result() { destroy(); }
Destroy(t, s) ==
  /\ Idle(t) /\ Live(s)
  /\ objs' = [objs EXCEPT ![s] = NoObj]
  /\ ret' = [ret EXCEPT ![t] = [op |-> "~Result", self |-> s, recv |-> objs[s],
                                 destroyed |-> <<destroy(objs[s])>>,
                                 left |-> Destroyed(objs[s])]]
  /\ UNCHANGED <<stack, etype, log_hook, terminate_hook, hook_mutex, halted>>

\* The container a move leaves behind: same discriminant, live payload
\* moved-from.
MovedFrom(c) ==
  IF c.is_ok THEN {[c EXCEPT !.value = v] : v \in MovedFromT(c.value)}
             ELSE {[c EXCEPT !.error = e] : e \in MovedFromE(etype, c.error)}

\* Result(Result&& other): is_ok(other.is_ok), payload move-constructed
MoveCtor(other) ==
  IF other.is_ok THEN [T |-> other.T, is_ok |-> other.is_ok, value |-> other.value, error |-> Raw]
                 ELSE [T |-> other.T, is_ok |-> other.is_ok, value |-> Raw, error |-> other.error]

MoveConstruct(t, dst, src) ==
  /\ Idle(t) /\ Live(src) /\ ~Live(dst)
  /\ \E residue \in MovedFrom(objs[src]) :
       objs' = [objs EXCEPT ![dst] = MoveCtor(objs[src]), ![src] = residue]
  /\ ret' = [ret EXCEPT ![t] = [op |-> "move-ctor", self |-> dst, other |-> src]]
  /\ UNCHANGED <<stack, etype, log_hook, terminate_hook, hook_mutex, halted>>

\* mutant: the discriminant is not taken over
MoveInto_keeps_discriminant(self, other) ==
  IF other.is_ok THEN [self EXCEPT !.value = other.value]
                 ELSE [self EXCEPT !.error = other.error]

\* is_ok = other.is_ok; placement-new of the payload into self's storage
MoveInto(self, other) ==
  IF other.is_ok THEN [self EXCEPT !.is_ok = other.is_ok, !.value = other.value]
                 ELSE [self EXCEPT !.is_ok = other.is_ok, !.error = other.error]

\* operator=(Result&& other)
MoveAssign(t, dst, src) ==
  /\ Idle(t) /\ Live(src) /\ Live(dst)
  /\ objs[src].T = objs[dst].T
  /\ IF dst # src
       THEN /\ \E residue \in MovedFrom(objs[src]) :
                 objs' = [objs EXCEPT ![dst] = MoveInto(Destroyed(objs[dst]), objs[src]),
                                      ![src] = residue]
            /\ ret' = [ret EXCEPT ![t] = [op |-> "move-assign", self |-> dst, other |-> src,
                                           recv |-> objs[dst], from |-> objs[src],
                                           destroyed |-> <<destroy(objs[dst])>>]]
       ELSE /\ objs' = objs
            /\ ret' = [ret EXCEPT ![t] = [op |-> "move-assign", self |-> dst, other |-> src,
                                           recv |-> objs[dst], from |-> objs[src],
                                           destroyed |-> <<>>]]
  /\ UNCHANGED <<stack, etype, log_hook, terminate_hook, hook_mutex, halted>>

(* ----------------------------- callables ------------------------------ *)
\* A callable handed to map is a chain of basic mappers applied left to
\* right: <<f>> is f, <<f, g>> is the lambda x => g(f(x)).
BasicMappers == {"identity", "twice", "inc", "toDouble"}
Mappers == {<<f>> : f \in BasicMappers}
ApplyBasicMapper(f, x) ==
  CASE f = "identity" -> x
    [] f = "twice"    -> x * 2
    [] f = "inc"      -> x + 1
    [] f = "toDouble" -> x

RECURSIVE ApplyMapper(_, _)
ApplyMapper(fs, x) ==
  IF fs = <<>> THEN x ELSE ApplyMapper(Tail(fs), ApplyBasicMapper(Head(fs), x))

\* the static types: toDouble takes an int and returns a double
RECURSIVE MapperType(_, _)
MapperType(fs, T) ==
  IF fs = <<>> THEN T
  ELSE MapperType(Tail(fs), IF Head(fs) = "toDouble" THEN "double" ELSE T)

RECURSIVE MapperAccepts(_, _)
MapperAccepts(fs, T) ==
  IF fs = <<>> THEN TRUE
  ELSE /\ Head(fs) = "toDouble" => T = "int"
       /\ MapperAccepts(Tail(fs), MapperType(<<Head(fs)>>, T))

\* the error a failing callable reports
FailErr(et) ==
  CASE et = "string" -> "boom"
    [] et = "cstr"   -> "io"
    [] et = "int"    -> 42

\* Callables T -> Result<U, E> handed to andThen: <<f>> is f, and
\* <<f, g>> is the lambda x => f(x).andThen(g).
BasicBinders == {"Ok", "okInc", "okTwice", "nonzero", "fail", "okToDouble"}
Binders == {<<f>> : f \in BasicBinders}
ApplyBasicBinder(f, T, x) ==
  CASE f = "Ok"         -> Ok(T, x)
    [] f = "okInc"      -> Ok(T, x + 1)
    [] f = "okTwice"    -> Ok(T, x * 2)
    [] f = "okTimes10"  -> Ok(T, x * 10)
    [] f = "nonzero"    -> IF x = 0 THEN Err(T, FailErr(etype)) ELSE Ok(T, x)
    [] f = "fail"       -> Err(T, FailErr(etype))
    [] f = "okToDouble" -> Ok("double", x)

RECURSIVE BinderType(_, _)
BinderType(fs, T) ==
  IF fs = <<>> THEN T
  ELSE BinderType(Tail(fs), IF Head(fs) = "okToDouble" THEN "double" ELSE T)

RECURSIVE BinderAccepts(_, _)
BinderAccepts(fs, T) ==
  IF fs = <<>> THEN TRUE
  ELSE /\ Head(fs) = "okToDouble" => T = "int"
       /\ BinderAccepts(Tail(fs), BinderType(<<Head(fs)>>, T))

\* mappers E -> E handed to mapError
ErrMappers == {"identity", "wrap"}
ApplyErrMapper(f, e) ==
  IF f = "identity" THEN e
  ELSE CASE etype = "string" -> "File error: " \o e
         [] etype = "cstr"   -> IF e = NullPtr THEN "io" ELSE e
         [] etype = "int"    -> 0 - e

\* callables E -> Result<T, E> handed to orElse
Recoverers == {"Err", "recover", "wrapErr"}
ApplyRecoverer(f, T, e) ==
  CASE f = "Err"     -> Err(T, e)
    [] f = "recover" -> Ok(T, 0)
    [] f = "wrapErr" -> Err(T, ApplyErrMapper("wrap", e))

\* the payloads the bounded model can hold
ErrInRange(e) == etype = "string" => Len(e) <= MaxErrLen
InRange(c) == IF c.is_ok THEN c.value \in Vals ELSE ErrInRange(c.error)

(* ---------------------------- combinators ----------------------------- *)
\* Each combinator is a function of the receiver and the callable: res is
\* the container returned, called whether the callable ran, steps the log
\* and termination steps performed.
\* mutant: the error is not carried over (Err(E{}))
map_drops_error(c, mapper) ==
  IF c.is_ok
    THEN [res |-> Ok(MapperType(mapper, c.T), ApplyMapper(mapper, c.value)),
          called |-> TRUE, steps |-> <<>>]
    ELSE [res |-> Err(MapperType(mapper, c.T), DefaultE(etype)),
          called |-> FALSE, steps |-> <<>>]

\* mutant: the success payload is passed on unmapped
map_skips_mapper(c, mapper) ==
  IF c.is_ok
    THEN [res |-> Ok(MapperType(mapper, c.T), c.value), called |-> TRUE, steps |-> <<>>]
    ELSE [res |-> Err(MapperType(mapper, c.T), c.error), called |-> FALSE, steps |-> <<>>]

map(c, mapper) ==
  IF c.is_ok
    THEN [res |-> Ok(MapperType(mapper, c.T), ApplyMapper(mapper, c.value)),
          called |-> TRUE, steps |-> <<>>]
    ELSE [res |-> Err(MapperType(mapper, c.T), c.error),
          called |-> FALSE, steps |-> <<>>]

\* mutant: the error path reports the error it transforms
mapError_logs(c, mapper) ==
  IF ~c.is_ok
    THEN [res |-> Err(c.T, ApplyErrMapper(mapper, c.error)), called |-> TRUE,
          steps |-> <<[kind |-> "stderr", T |-> c.T, hook |-> Null,
                       msg |-> formatError(c, etype, "")]>>]
    ELSE [res |-> Ok(c.T, c.value), called |-> FALSE, steps |-> <<>>]

mapError(c, mapper) ==
  IF ~c.is_ok
    THEN [res |-> Err(c.T, ApplyErrMapper(mapper, c.error)),
          called |-> TRUE, steps |-> <<>>]
    ELSE [res |-> Ok(c.T, c.value), called |-> FALSE, steps |-> <<>>]

RECURSIVE ApplyBinder(_, _, _)
\* mutant: the short-circuit does not carry the error over (Err(E{}))
andThen_drops_error(c, f) ==
  IF c.is_ok
    THEN [res |-> ApplyBinder(f, c.T, c.value), called |-> TRUE, steps |-> <<>>]
    ELSE [res |-> Err(BinderType(f, c.T), DefaultE(etype)), called |-> FALSE, steps |-> <<>>]

andThen(c, f) ==
  IF c.is_ok
    THEN [res |-> ApplyBinder(f, c.T, c.value), called |-> TRUE, steps |-> <<>>]
    ELSE [res |-> Err(BinderType(f, c.T), c.error), called |-> FALSE, steps |-> <<>>]

ApplyBinder(fs, T, x) ==
  IF Len(fs) = 1 THEN ApplyBasicBinder(fs[1], T, x)
  ELSE andThen(ApplyBasicBinder(fs[1], T, x), Tail(fs)).res

\* mutant: the error is passed on without consulting f
orElse_skips_recovery(c, f) ==
  IF ~c.is_ok
    THEN [res |-> Err(c.T, c.error), called |-> FALSE, steps |-> <<>>]
    ELSE [res |-> Ok(c.T, c.value), called |-> FALSE, steps |-> <<>>]

orElse(c, f) ==
  IF ~c.is_ok
    THEN [res |-> ApplyRecoverer(f, c.T, c.error), called |-> TRUE, steps |-> <<>>]
    ELSE [res |-> Ok(c.T, c.value), called |-> FALSE, steps |-> <<>>]

\* A combinator call: the result goes to a free slot, the receiver keeps
\* its discriminant and is left with a moved-from payload.
Combine(t, op, s, dst, f, out) ==
  /\ Idle(t) /\ Live(s) /\ ~Live(dst)
  /\ InRange(out.res)
  /\ \E residue \in MovedFrom(objs[s]) :
       objs' = [objs EXCEPT ![dst] = out.res, ![s] = residue]
  /\ ret' = [ret EXCEPT ![t] = [op |-> op, self |-> s, dst |-> dst, f |-> f,
                                 recv |-> objs[s], res |-> out.res,
                                 called |-> out.called, steps |-> out.steps]]
  /\ UNCHANGED <<stack, etype, log_hook, terminate_hook, hook_mutex, halted>>

Map(t, s, dst, f) ==
  /\ Live(s) /\ MapperAccepts(f, objs[s].T)
  /\ Combine(t, "map", s, dst, f, map(objs[s], f))

MapError(t, s, dst, f) ==
  /\ Live(s)
  /\ Combine(t, "mapError", s, dst, f, mapError(objs[s], f))

AndThen(t, s, dst, f) ==
  /\ Live(s) /\ BinderAccepts(f, objs[s].T)
  /\ Combine(t, "andThen", s, dst, f, andThen(objs[s], f))

OrElse(t, s, dst, f) ==
  /\ Live(s)
  /\ Combine(t, "orElse", s, dst, f, orElse(objs[s], f))

(* --------------------------- hook registry ---------------------------- *)
\* The three registry setters lock hook_mutex for their whole body.
\* mutant: one slot shared by every instantiation
setLogHook_global(T, hook) == [U \in TTypes |-> hook]
setLogHook(T, hook) == [log_hook EXCEPT ![T] = hook]
setTerminateHook(T, hook) == [terminate_hook EXCEPT ![T] = hook]

SetLogHook(t, T, hook) ==
  /\ Idle(t) /\ hook_mutex[T] = Free
  /\ log_hook' = setLogHook(T, hook)
  /\ ret' = [ret EXCEPT ![t] = [op |-> "setLogHook", T |-> T]]
  /\ UNCHANGED <<stack, etype, objs, terminate_hook, hook_mutex, halted>>

SetTerminateHook(t, T, hook) ==
  /\ Idle(t) /\ hook_mutex[T] = Free
  /\ terminate_hook' = setTerminateHook(T, hook)
  /\ ret' = [ret EXCEPT ![t] = [op |-> "setTerminateHook", T |-> T]]
  /\ UNCHANGED <<stack, etype, objs, log_hook, hook_mutex, halted>>

ClearHooks(t, T) ==
  /\ Idle(t) /\ hook_mutex[T] = Free
  /\ log_hook' = setLogHook(T, Null)
  /\ terminate_hook' = setTerminateHook(T, Null)
  /\ ret' = [ret EXCEPT ![t] = [op |-> "clearHooks", T |-> T]]
  /\ UNCHANGED <<stack, etype, objs, hook_mutex, halted>>

\* mutant: the registered hook is ignored
logError_ignores_hook(T, message) ==
  [kind |-> "stderr", T |-> T, hook |-> Null, msg |-> message]

\* logError(message): the registered hook if there is one, else std::cerr
logError(T, message) ==
  IF log_hook[T] # Null
    THEN [kind |-> "log_hook", T |-> T, hook |-> log_hook[T], msg |-> message]
    ELSE [kind |-> "stderr", T |-> T, hook |-> Null, msg |-> message]

\* terminateProgram(): the registered hook if there is one, else std::terminate
terminateProgram(T) ==
  IF terminate_hook[T] # Null
    THEN [kind |-> "terminate_hook", T |-> T, hook |-> terminate_hook[T], msg |-> ""]
    ELSE [kind |-> "std::terminate", T |-> T, hook |-> Null, msg |-> ""]

\* mutant: every termination step ends the process
TerminateEffect_always_halts(step) == "halted"

\* How control leaves a termination step: std::terminate ends the process,
\* a registered hook throws or simply returns.
TerminateEffect(step) ==
  CASE step.kind = "std::terminate" -> "halted"
    [] step.hook = "throwing"         -> "threw"
    [] OTHER                          -> "returned"

(* ---------------------------- extractions ----------------------------- *)
\* An extraction yields: the steps it performed in order, how control left
\* it, the value returned (Null if none was), whether the live payload was
\* moved out and whether a caller-supplied fallback ran.
Returned(x, moved) ==
  [steps |-> <<>>, outcome |-> "returned", result |-> x, moved |-> moved, called |-> FALSE]

\* mutant: the two calls are swapped
Fatal_terminates_first(T, message, dflt) ==
  [steps |-> <<terminateProgram(T), logError(T, message)>>,
   outcome |-> TerminateEffect(terminateProgram(T)),
   result |-> IF TerminateEffect(terminateProgram(T)) = "returned" THEN dflt ELSE Null,
   moved |-> FALSE, called |-> FALSE]

\* logError(message); terminateProgram(); return dflt;
Fatal(T, message, dflt) ==
  LET term == terminateProgram(T)
      how == TerminateEffect(term)
  IN  [steps |-> <<logError(T, message), term>>, outcome |-> how,
       result |-> IF how = "returned" THEN dflt ELSE Null,
       moved |-> FALSE, called |-> FALSE]

\* logError(message); return dflt;
Logged(T, message, dflt) ==
  [steps |-> <<logError(T, message)>>, outcome |-> "returned", result |-> dflt,
   moved |-> FALSE, called |-> FALSE]

unwrap(c, context) ==
  IF c.is_ok THEN Returned(c.value, TRUE)
  ELSE Fatal(c.T, "FATAL: Attempted to unwrap an Err value - " \o formatError(c, etype, context),
             DefaultT)

\* mutant: the fatal path reuses unwrap's message
unwrapErr_with_unwrap_message(c, context) ==
  IF ~c.is_ok THEN Returned(c.error, TRUE)
  ELSE Fatal(c.T, "FATAL: Attempted to unwrap an Err value - " \o formatError(c, etype, context),
             DefaultE(etype))

unwrapErr(c, context) ==
  IF ~c.is_ok THEN Returned(c.error, TRUE)
  ELSE Fatal(c.T, "FATAL: Attempted to unwrapErr an Ok value - " \o formatError(c, etype, context),
             DefaultE(etype))

\* mutant: the warning carries the error text
unwrapChecked_with_error_text(c) ==
  IF ~c.is_ok
    THEN Logged(c.T, "Warning: Attempted to unwrapChecked an Err value - "
                       \o formatError(c, etype, ""), DefaultT)
    ELSE Returned(c.value, TRUE)

unwrapChecked(c) ==
  IF ~c.is_ok THEN Logged(c.T, "Warning: Attempted to unwrapChecked an Err value", DefaultT)
  ELSE Returned(c.value, TRUE)

expect(c, expectation) ==
  IF c.is_ok THEN Returned(c.value, TRUE)
  ELSE Fatal(c.T, "FATAL: " \o ("Expectation failed: " \o expectation \o ". " \o formatError(c, etype, "")),
             DefaultT)

\* mutant: the fallback path logs like unwrapOrLog
unwrapOr_logs(c, default_val) ==
  IF c.is_ok THEN Returned(c.value, TRUE)
  ELSE Logged(c.T, "RECOVERABLE: " \o formatError(c, etype, ""), default_val)

unwrapOr(c, default_val) ==
  IF c.is_ok THEN Returned(c.value, TRUE) ELSE Returned(default_val, FALSE)

unwrapOrLog(c, context, default_val) ==
  IF c.is_ok THEN Returned(c.value, TRUE)
  ELSE Logged(c.T, "RECOVERABLE: " \o formatError(c, etype, context), default_val)

\* fallback is a callable returning fallback_val
unwrapOrElse(c, fallback_val) ==
  IF c.is_ok THEN Returned(c.value, TRUE)
  ELSE [Returned(fallback_val, FALSE) EXCEPT !.called = TRUE]

\* An extraction call on the container in s.
Extract(t, op, s, arg, out) ==
  /\ Idle(t) /\ Live(s)
  /\ \A i \in 1..Len(out.steps) : hook_mutex[out.steps[i].T] = Free
  /\ \E residue \in (IF out.moved THEN MovedFrom(objs[s]) ELSE {objs[s]}) :
       objs' = [objs EXCEPT ![s] = residue]
  /\ halted' = (out.outcome = "halted")
  /\ ret' = [ret EXCEPT ![t] = [op |-> op, self |-> s, recv |-> objs[s], arg |-> arg,
                                 logged_with |-> log_hook[objs[s].T],
                                 terminated_with |-> terminate_hook[objs[s].T],
                                 steps |-> out.steps, outcome |-> out.outcome,
                                 result |-> out.result, called |-> out.called]]
  /\ UNCHANGED <<stack, etype, log_hook, terminate_hook, hook_mutex>>

Unwrap(t, s, context) ==
  Live(s) /\ Extract(t, "unwrap", s, context, unwrap(objs[s], context))

UnwrapErr(t, s, context) ==
  Live(s) /\ Extract(t, "unwrapErr", s, context, unwrapErr(objs[s], context))

UnwrapChecked(t, s) ==
  Live(s) /\ Extract(t, "unwrapChecked", s, "", unwrapChecked(objs[s]))

Expect(t, s, expectation) ==
  Live(s) /\ Extract(t, "expect", s, expectation, expect(objs[s], expectation))

UnwrapOr(t, s, default_val) ==
  Live(s) /\ Extract(t, "unwrapOr", s, default_val, unwrapOr(objs[s], default_val))

UnwrapOrLog(t, s, context, default_val) ==
  Live(s) /\ Extract(t, "unwrapOrLog", s, <<context, default_val>>,
                     unwrapOrLog(objs[s], context, default_val))

UnwrapOrElse(t, s, fallback_val) ==
  Live(s) /\ Extract(t, "unwrapOrElse", s, fallback_val, unwrapOrElse(objs[s], fallback_val))

(* ------------------------------ matching ------------------------------ *)
\* match(ok, err) const: the callback of the live member sees the payload
match(c) ==
  IF c.is_ok THEN [callback |-> "ok", payload |-> c.value]
             ELSE [callback |-> "err", payload |-> c.error]

Match(t, s) ==
  /\ Idle(t) /\ Live(s)
  /\ ret' = [ret EXCEPT ![t] = [op |-> "match", self |-> s, recv |-> objs[s],
                                 seen |-> match(objs[s]), steps |-> <<>>]]
  /\ UNCHANGED <<stack, etype, objs, log_hook, terminate_hook, hook_mutex, halted>>

\* matchConsume(ok, err): the callback receives the payload as an rvalue
MatchConsume(t, s) ==
  /\ Idle(t) /\ Live(s)
  /\ \E residue \in MovedFrom(objs[s]) : objs' = [objs EXCEPT ![s] = residue]
  /\ ret' = [ret EXCEPT ![t] = [op |-> "matchConsume", self |-> s, recv |-> objs[s],
                                 seen |-> match(objs[s]), steps |-> <<>>]]
  /\ UNCHANGED <<stack, etype, log_hook, terminate_hook, hook_mutex, halted>>

\* The call has returned (or thrown to its handler): the caller goes on to
\* its next statement.
Resume(t) ==
  /\ ~halted /\ ret[t] # NoRet
  /\ ret' = [ret EXCEPT ![t] = NoRet]
  /\ UNCHANGED <<stack, etype, objs, log_hook, terminate_hook, hook_mutex, halted>>

Next ==
  \E t \in Threads :
    \/ Resume(t)
    \/ \E s \in Slots, T \in TTypes, val \in Vals : MakeOk(t, s, T, val)
    \/ \E s \in Slots, T \in TTypes, err \in InputErrs(etype) : MakeErr(t, s, T, err)
    \/ \E s \in Slots : Destroy(t, s)
    \/ \E dst, src \in Slots : MoveConstruct(t, dst, src)
    \/ \E dst, src \in Slots : MoveAssign(t, dst, src)
    \/ \E s, dst \in Slots, f \in Mappers : Map(t, s, dst, f)
    \/ \E s, dst \in Slots, f \in ErrMappers : MapError(t, s, dst, f)
    \/ \E s, dst \in Slots, f \in Binders : AndThen(t, s, dst, f)
    \/ \E s, dst \in Slots, f \in Recoverers : OrElse(t, s, dst, f)
    \/ \E s \in Slots : Match(t, s)
    \/ \E s \in Slots : MatchConsume(t, s)
    \/ \E T \in TTypes, hook \in LogHooks \cup {Null} : SetLogHook(t, T, hook)
    \/ \E T \in TTypes, hook \in TermHooks \cup {Null} : SetTerminateHook(t, T, hook)
    \/ \E T \in TTypes : ClearHooks(t, T)
    \/ \E s \in Slots, context \in Contexts : Unwrap(t, s, context)
    \/ \E s \in Slots, context \in Contexts : UnwrapErr(t, s, context)
    \/ \E s \in Slots : UnwrapChecked(t, s)
    \/ \E s \in Slots, expectation \in Expectations : Expect(t, s, expectation)
    \/ \E s \in Slots, default_val \in Fallbacks : UnwrapOr(t, s, default_val)
    \/ \E s \in Slots, context \in Contexts, default_val \in Fallbacks : UnwrapOrLog(t, s, context, default_val)
    \/ \E s \in Slots, fallback_val \in Fallbacks : UnwrapOrElse(t, s, fallback_val)

Spec == Init /\ [][Next]_vars

(* ------------------- the registry under concurrency ------------------- *)
Workers == {"t1", "t2"}

\* A hook may call back into the library: the hook op@T calls op of
\* Result<T, E>, an extraction being called on an error container.
Setters == {"setLogHook", "setTerminateHook", "clearHooks"}
NestedOps == Setters \cup {"unwrapChecked", "unwrap"}
ReentrantHook(op, T) == op \o "@" \o T
ReentrantHooks == {ReentrantHook(op, T) : op \in NestedOps, T \in TTypes}
HookCall(h) == CHOOSE c \in NestedOps \X TTypes : ReentrantHook(c[1], c[2]) = h

\* the error container of Result<T, E> a thread or a hook extracts from
SlotOf(T) == CHOOSE s \in Slots : objs[s].T = T

\* A call frame: the operation, its instantiation, its argument (the hook
\* of a setter, the container of an extraction), where the thread is in it,
\* and the log and termination steps it has performed.
Frame(op, T, arg) ==
  [op |-> op, T |-> T, arg |-> arg, pc |-> IF op \in Setters THEN "lock" ELSE "logError",
   steps |-> <<>>]

\* the frame of the call a re-entrant hook makes
NestedFrame(h) ==
  LET op == HookCall(h)[1]
      T == HookCall(h)[2]
  IN  Frame(op, T, CASE op = "setLogHook"       -> "logA"
                     [] op = "setTerminateHook" -> "silent"
                     [] op = "clearHooks"       -> Null
                     [] OTHER                   -> SlotOf(T))

\* about to construct the lock_guard / inside its scope
WaitingPcs == {"lock", "logError", "terminateProgram"}
HoldingPcs == {"locked", "logError.locked", "logError.hook",
               "terminateProgram.locked", "terminateProgram.hook"}
LockedPc(pc) ==
  CASE pc = "lock"             -> "locked"
    [] pc = "logError"         -> "logError.locked"
    [] pc = "terminateProgram" -> "terminateProgram.locked"

\* mutant: the mutex lets every thread in
CanLock_unguarded(t, T) == TRUE
\* mutant: a recursive mutex
CanLock_recursive(t, T) == hook_mutex[T] \in {Free, t}
\* std::mutex::lock() returns once no thread owns the mutex
CanLock(t, T) == hook_mutex[T] = Free

\* mutant: the lock_guard does not release
Unlock_keeps_lock(t, T) == hook_mutex
\* ~lock_guard()
Unlock(t, T) == [hook_mutex EXCEPT ![T] = Free]
\* stack unwinding runs ~lock_guard() of every frame of the thread
UnlockAll(t) == [T \in TTypes |-> IF hook_mutex[T] = t THEN Free ELSE hook_mutex[T]]

Top(t) == stack[t][Len(stack[t])]
SetTop(t, f) == [stack EXCEPT ![t] = [@ EXCEPT ![Len(@)] = f]]
Push(t, f, nested) == [stack EXCEPT ![t] = SubSeq(@, 1, Len(@) - 1) \o <<f, nested>>]
Pop(t) == [stack EXCEPT ![t] = SubSeq(@, 1, Len(@) - 1)]
Running(t) == ~halted /\ stack[t] # <<>>

\* The threads start with an empty registry and one error container per
\* instantiation.
RegistryInit ==
  /\ etype = "string"
  /\ objs = [s \in Slots |-> Err(IF s = "a" THEN "int" ELSE "double", FailErr("string"))]
  /\ log_hook = [T \in TTypes |-> Null]
  /\ terminate_hook = [T \in TTypes |-> Null]
  /\ hook_mutex = [T \in TTypes |-> Free]
  /\ ret = [t \in Workers |-> NoRet]
  /\ halted = FALSE
  /\ stack = [t \in Workers |-> <<>>]

\* a thread enters a public operation
Call(t, op, T, arg) ==
  /\ ~halted /\ stack[t] = <<>>
  /\ stack' = [stack EXCEPT ![t] = <<Frame(op, T, arg)>>]
  /\ UNCHANGED <<etype, objs, log_hook, terminate_hook, hook_mutex, ret, halted>>

CallSetLogHook(t, T, hook) == Call(t, "setLogHook", T, hook)
CallSetTerminateHook(t, T, hook) == Call(t, "setTerminateHook", T, hook)
CallClearHooks(t, T) == Call(t, "clearHooks", T, Null)
CallUnwrap(t, s) == Call(t, "unwrap", objs[s].T, s)
CallUnwrapChecked(t, s) == Call(t, "unwrapChecked", objs[s].T, s)

\* std::lock_guard<std::mutex> lock(hook_mutex);
LockGuard(t) ==
  /\ Running(t) /\ Top(t).pc \in WaitingPcs
  /\ CanLock(t, Top(t).T)
  /\ hook_mutex' = [hook_mutex EXCEPT ![Top(t).T] = t]
  /\ stack' = SetTop(t, [Top(t) EXCEPT !.pc = LockedPc(@)])
  /\ UNCHANGED <<etype, objs, log_hook, terminate_hook, ret, halted>>

\* log_hook = std::move(hook); and the end of the scope
StoreLogHook(t) ==
  /\ Running(t) /\ Top(t).op = "setLogHook" /\ Top(t).pc = "locked"
  /\ log_hook' = setLogHook(Top(t).T, Top(t).arg)
  /\ hook_mutex' = Unlock(t, Top(t).T)
  /\ stack' = Pop(t)
  /\ UNCHANGED <<etype, objs, terminate_hook, ret, halted>>

\* terminate_hook = std::move(hook); and the end of the scope
StoreTerminateHook(t) ==
  /\ Running(t) /\ Top(t).op = "setTerminateHook" /\ Top(t).pc = "locked"
  /\ terminate_hook' = setTerminateHook(Top(t).T, Top(t).arg)
  /\ hook_mutex' = Unlock(t, Top(t).T)
  /\ stack' = Pop(t)
  /\ UNCHANGED <<etype, objs, log_hook, ret, halted>>

\* log_hook = nullptr; terminate_hook = nullptr; and the end of the scope
StoreNoHooks(t) ==
  /\ Running(t) /\ Top(t).op = "clearHooks" /\ Top(t).pc = "locked"
  /\ log_hook' = setLogHook(Top(t).T, Null)
  /\ terminate_hook' = setTerminateHook(Top(t).T, Null)
  /\ hook_mutex' = Unlock(t, Top(t).T)
  /\ stack' = Pop(t)
  /\ UNCHANGED <<etype, objs, ret, halted>>

\* the extraction an extraction frame executes, on its container
ExtractionOf(f) ==
  IF f.op = "unwrap" THEN unwrap(objs[f.arg], "") ELSE unwrapChecked(objs[f.arg])
\* unwrap goes on to terminateProgram(), unwrapChecked returns
AfterLogError(f) == IF f.op = "unwrap" THEN "terminateProgram" ELSE "return"

\* the body of logError under the lock: the hook or std::cerr, then the end
\* of the scope; a re-entrant hook is left running with the lock held
LogError(t) ==
  /\ Running(t) /\ Top(t).pc = "logError.locked"
  /\ LET f == Top(t)
         step == ExtractionOf(f).steps[1]
         g == [f EXCEPT !.steps = Append(@, step)]
     IN  IF step.hook \in ReentrantHooks
           THEN /\ stack' = Push(t, [g EXCEPT !.pc = "logError.hook"], NestedFrame(step.hook))
                /\ UNCHANGED hook_mutex
           ELSE /\ stack' = SetTop(t, [g EXCEPT !.pc = AfterLogError(f)])
                /\ hook_mutex' = Unlock(t, f.T)
  /\ UNCHANGED <<etype, objs, log_hook, terminate_hook, ret, halted>>

\* the body of terminateProgram under the lock: std::terminate ends the
\* process; a hook that returns ends the scope; a hook that throws unwinds
\* every frame of the thread up to the caller's handler
TerminateProgram(t) ==
  /\ Running(t) /\ Top(t).pc = "terminateProgram.locked"
  /\ LET f == Top(t)
         step == ExtractionOf(f).steps[2]
         g == [f EXCEPT !.steps = Append(@, step)]
         how == IF step.hook \in ReentrantHooks THEN "nested" ELSE TerminateEffect(step)
     IN  CASE how = "nested" ->
                /\ stack' = Push(t, [g EXCEPT !.pc = "terminateProgram.hook"], NestedFrame(step.hook))
                /\ UNCHANGED <<hook_mutex, halted>>
           [] how = "halted" ->
                /\ stack' = SetTop(t, [g EXCEPT !.pc = "halted"])
                /\ halted' = TRUE
                /\ UNCHANGED hook_mutex
           [] how = "returned" ->
                /\ stack' = SetTop(t, [g EXCEPT !.pc = "return"])
                /\ hook_mutex' = Unlock(t, f.T)
                /\ UNCHANGED halted
           [] how = "threw" ->
                /\ stack' = [stack EXCEPT ![t] =
                               <<[(IF Len(@) = 1 THEN g ELSE @[1]) EXCEPT !.pc = "threw"]>>]
                /\ hook_mutex' = UnlockAll(t)
                /\ UNCHANGED halted
  /\ UNCHANGED <<etype, objs, log_hook, terminate_hook, ret>>

\* the call a re-entrant hook made has returned, and so does the hook: the
\* scope of logError / terminateProgram ends
HookReturns(t) ==
  /\ Running(t) /\ Top(t).pc \in {"logError.hook", "terminateProgram.hook"}
  /\ hook_mutex' = Unlock(t, Top(t).T)
  /\ stack' = SetTop(t, [Top(t) EXCEPT !.pc = IF @ = "logError.hook" THEN AfterLogError(Top(t))
                                                                     ELSE "return"])
  /\ UNCHANGED <<etype, objs, log_hook, terminate_hook, ret, halted>>

\* the extraction returns to its caller, or its exception reaches a handler
ReturnToCaller(t) ==
  /\ Running(t) /\ Top(t).pc \in {"return", "threw"}
  /\ stack' = Pop(t)
  /\ UNCHANGED <<etype, objs, log_hook, terminate_hook, hook_mutex, ret, halted>>

\* two threads, hooks that do not call back into the library
RegistryNext ==
  \E t \in Workers :
    \/ \E T \in TTypes, hook \in LogHooks : CallSetLogHook(t, T, hook)
    \/ \E T \in TTypes, hook \in TermHooks : CallSetTerminateHook(t, T, hook)
    \/ \E T \in TTypes : CallClearHooks(t, T)
    \/ \E s \in Slots : CallUnwrap(t, s)
    \/ \E s \in Slots : CallUnwrapChecked(t, s)
    \/ LockGuard(t)
    \/ StoreLogHook(t)
    \/ StoreTerminateHook(t)
    \/ StoreNoHooks(t)
    \/ LogError(t)
    \/ TerminateProgram(t)
    \/ ReturnToCaller(t)

RegistrySpec == RegistryInit /\ [][RegistryNext]_vars

\* The registry as a setup function left it before the threads start: per
\* instantiation either no hook or one re-entrant hook, as the log hook or
\* as the termination hook.
ReentrantInit ==
  /\ etype = "string"
  /\ objs = [s \in Slots |-> Err(IF s = "a" THEN "int" ELSE "double", FailErr("string"))]
  /\ log_hook \in [TTypes -> {Null} \cup ReentrantHooks]
  /\ terminate_hook \in [TTypes -> {Null} \cup ReentrantHooks]
  /\ \A T \in TTypes : log_hook[T] = Null \/ terminate_hook[T] = Null
  /\ hook_mutex = [T \in TTypes |-> Free]
  /\ ret = [t \in Workers |-> NoRet]
  /\ halted = FALSE
  /\ stack = [t \in Workers |-> <<>>]

\* two threads that extract and clear, hooks that call back into the library
ReentrantNext ==
  \E t \in Workers :
    \/ \E T \in TTypes : CallClearHooks(t, T)
    \/ \E s \in Slots : CallUnwrap(t, s)
    \/ LockGuard(t)
    \/ StoreLogHook(t)
    \/ StoreTerminateHook(t)
    \/ StoreNoHooks(t)
    \/ LogError(t)
    \/ TerminateProgram(t)
    \/ HookReturns(t)
    \/ ReturnToCaller(t)

ReentrantSpec == ReentrantInit /\ [][ReentrantNext]_vars

(* ------------------------------ claims -------------------------------- *)
Calls == {ret[t] : t \in Threads} \ {NoRet}
Combinators == {"map", "mapError", "andThen", "orElse"}
Extractions == {"unwrap", "unwrapErr", "unwrapChecked", "expect",
                "unwrapOr", "unwrapOrLog", "unwrapOrElse"}
IsLogStep(st) == st.kind \in {"log_hook", "stderr"}
IsTerminateStep(st) == st.kind \in {"terminate_hook", "std::terminate"}
LogSteps(r) == {i \in 1..Len(r.steps) : IsLogStep(r.steps[i])}
TerminateSteps(r) == {i \in 1..Len(r.steps) : IsTerminateStep(r.steps[i])}
\* "context: " for a non-empty context, empty otherwise
ContextPrefix(context) == IF context = "" THEN "" ELSE context \o ": "

\* C1: every live container answers exactly one of isOk() and isErr() with
\* true, whatever was applied to it; right after Ok(v) it is isOk() and not
\* isErr(), right after Err(e) it is isErr() and not isOk().
C1_ExactlyOneOfOkErr ==
  /\ \A s \in Slots : Live(s) =>
       /\ isOk(objs[s]) \in BOOLEAN /\ isErr(objs[s]) \in BOOLEAN
       /\ isOk(objs[s]) # isErr(objs[s])
  /\ \A r \in Calls :
       /\ r.op = "Ok" => isOk(objs[r.dst]) /\ ~isErr(objs[r.dst])
       /\ r.op = "Err" => isErr(objs[r.dst]) /\ ~isOk(objs[r.dst])

\* a consuming call has just left its receiver moved-from, and a chain has
\* turned a success into an error
C1_Witness ==
  \E r \in Calls :
    /\ r.op = "andThen" /\ r.called
    /\ isOk(objs[r.self]) /\ ~isErr(objs[r.self])
    /\ isErr(objs[r.dst]) /\ ~isOk(objs[r.dst])

\* C2: unwrap(context) and expect(message) on an error container perform
\* exactly one log step, with the FATAL message built from the argument
\* and the stringified error, and after it exactly one termination step;
\* on a success container they perform neither and return the payload.
C2_FatalLogsThenTerminates ==
  \A r \in Calls : r.op \in {"unwrap", "expect"} =>
    IF r.recv.is_ok
      THEN r.steps = <<>> /\ r.outcome = "returned" /\ r.result = r.recv.value
      ELSE /\ Cardinality(LogSteps(r)) = 1
           /\ Cardinality(TerminateSteps(r)) = 1
           /\ \A i \in LogSteps(r), j \in TerminateSteps(r) : i < j
           /\ \A i \in LogSteps(r) :
                r.steps[i].msg =
                  IF r.op = "unwrap"
                    THEN "FATAL: Attempted to unwrap an Err value - "
                           \o ContextPrefix(r.arg) \o errorToString(etype, r.recv.error)
                    ELSE "FATAL: Expectation failed: " \o r.arg \o ". "
                           \o errorToString(etype, r.recv.error)

C2_Witness ==
  \E r \in Calls :
    /\ r.op = "unwrap" /\ ~r.recv.is_ok /\ r.arg = "ctx"
    /\ Len(r.steps) = 2 /\ r.steps[1].kind = "log_hook"
    /\ r.steps[2].kind = "std::terminate" /\ halted

\* C3: with a log hook registered for the instantiation, unwrap, expect,
\* unwrapOrLog and unwrapChecked on an error value invoke that hook exactly
\* once and write nothing to standard error; clearHooks() empties both
\* slots, and with both empty the same calls write the message to standard
\* error once and the fatal ones end in the default termination.
C3_HookReplacesDefault ==
  \A r \in Calls :
    /\ (r.op \in {"unwrap", "expect", "unwrapOrLog", "unwrapChecked"} /\ ~r.recv.is_ok) =>
         /\ r.logged_with # Null =>
              /\ Cardinality({i \in LogSteps(r) : r.steps[i].kind = "log_hook"
                                /\ r.steps[i].hook = r.logged_with
                                /\ r.steps[i].T = r.recv.T}) = 1
              /\ Cardinality(LogSteps(r)) = 1
         /\ (r.logged_with = Null /\ r.terminated_with = Null) =>
              /\ Cardinality(LogSteps(r)) = 1
              /\ \A i \in LogSteps(r) : r.steps[i].kind = "stderr"
              /\ r.op \in {"unwrap", "expect"} =>
                   /\ \A j \in TerminateSteps(r) : r.steps[j].kind = "std::terminate"
                   /\ TerminateSteps(r) # {} /\ r.outcome = "halted" /\ halted
    /\ r.op = "clearHooks" => log_hook[r.T] = Null /\ terminate_hook[r.T] = Null

C3_Witness ==
  \E r \in Calls :
    /\ r.op = "unwrapOrLog" /\ ~r.recv.is_ok /\ r.logged_with = "logA"
    /\ Len(r.steps) = 1 /\ r.steps[1].hook = "logA"
    /\ log_hook[IF r.recv.T = "int" THEN "double" ELSE "int"] = Null

\* C4: unwrapOr(fallback) and unwrapOrElse(fallbackFn) perform no log step
\* and no termination step and do not end the process, whatever hooks are
\* registered; on success they return the payload and fallbackFn is not
\* called, on error they return fallback, resp. what fallbackFn() returns.
C4_SilentExtractions ==
  \A r \in Calls : r.op \in {"unwrapOr", "unwrapOrElse"} =>
    /\ r.steps = <<>> /\ r.outcome = "returned" /\ ~halted
    /\ r.recv.is_ok => r.result = r.recv.value /\ ~r.called
    /\ ~r.recv.is_ok => r.result = r.arg /\ (r.op = "unwrapOrElse" => r.called)

C4_Witness ==
  \E r \in Calls :
    /\ r.op = "unwrapOrElse" /\ ~r.recv.is_ok /\ r.called
    /\ r.logged_with = "logA" /\ r.terminated_with = "silent"

\* C5: map, mapError, andThen and orElse perform no log step and no
\* termination step, do not end the process and leave log_hook,
\* terminate_hook and hook_mutex of every instantiation as they were; so
\* does match: only the extraction operations perform such steps.
C5_CombinatorsAreHookSilent ==
  /\ [](\A r \in Calls :
          r.op \in Combinators \cup {"match", "matchConsume"} => r.steps = <<>> /\ ~halted)
  /\ [][\A t \in Threads :
          (ret[t] = NoRet /\ ret'[t] # NoRet /\ ret'[t].op \in Combinators)
            => UNCHANGED <<log_hook, terminate_hook, hook_mutex, halted>>]_vars

\* a combinator has run on an error receiver of an instantiation that has
\* both hooks registered
C5_Witness ==
  \E r \in Calls :
    /\ r.op \in Combinators /\ ~r.recv.is_ok
    /\ log_hook[r.recv.T] = "logA" /\ terminate_hook[r.recv.T] = "throwing"

\* C6: map(f) and andThen(f) on an error receiver holding e do not invoke f
\* and return an error container holding the same e, at every stage of a
\* chain (every receiver a chain can produce).
C6_ErrorShortCircuits ==
  \A r \in Calls : (r.op \in {"map", "andThen"} /\ ~r.recv.is_ok) =>
    /\ ~r.called
    /\ isErr(r.res) /\ ~isOk(r.res)
    /\ r.res.error = r.recv.error
    /\ objs[r.dst] = r.res

\* the receiver holds an error that an earlier mapError or orElse stage
\* of the chain built, and the callable of this stage is skipped
C6_Witness ==
  \E r \in Calls :
    /\ r.op = "map" /\ ~r.recv.is_ok /\ r.f = <<"twice">>
    /\ etype = "string" /\ r.recv.error = "File error: boom" /\ ~r.called

\* C7: mapError(f) and orElse(f) on a success receiver holding v do not
\* invoke f and return a success container holding the same v; on an error
\* receiver holding e, mapError returns an error container holding f(e) and
\* orElse returns the very container f(e) returns.
C7_ErrorPathCombinators ==
  \A r \in Calls : r.op \in {"mapError", "orElse"} =>
    /\ objs[r.dst] = r.res
    /\ IF r.recv.is_ok
         THEN /\ ~r.called
              /\ isOk(r.res) /\ r.res.value = r.recv.value /\ r.res.T = r.recv.T
         ELSE /\ r.called
              /\ r.op = "mapError" =>
                   /\ isErr(r.res) /\ r.res.T = r.recv.T
                   /\ r.res.error = ApplyErrMapper(r.f, r.recv.error)
              /\ r.op = "orElse" => r.res = ApplyRecoverer(r.f, r.recv.T, r.recv.error)

C7_Witness ==
  \E r \in Calls :
    /\ r.op = "orElse" /\ ~r.recv.is_ok /\ r.f = "recover"
    /\ isOk(objs[r.dst]) /\ objs[r.dst].value = 0

\* same discriminant and same payload (and the same instantiation)
SameResult(x, y) ==
  /\ x.T = y.T /\ x.is_ok = y.is_ok
  /\ IF x.is_ok THEN x.value = y.value ELSE x.error = y.error

\* the callables the laws are checked for
LawBinders == Binders \cup {<<"okTimes10">>}

\* C8: andThen obeys the monad laws on every container m it is called on
\* and all callables f, g: Ok(x).andThen(f) is f(x); m.andThen(Ok) is m;
\* m.andThen(f).andThen(g) is m.andThen(x => f(x).andThen(g)); with
\* f(x) = Ok(x+1), g(x) = Ok(x*10) both sides on Ok(5) are a success
\* holding 60.
C8_MonadLaws ==
  /\ \A r \in Calls : r.op = "andThen" =>
       LET m == r.recv IN
       /\ objs[r.dst] = r.res
       /\ m.is_ok => SameResult(r.res, ApplyBinder(r.f, m.T, m.value))
       /\ r.f = <<"Ok">> => SameResult(r.res, m)
       /\ \A g \in LawBinders : BinderAccepts(r.f \o g, m.T) =>
            SameResult(andThen(r.res, g).res, andThen(m, r.f \o g).res)
       /\ \A f \in LawBinders : (m.is_ok /\ BinderAccepts(f, m.T)) =>
            SameResult(andThen(Ok(m.T, m.value), f).res, ApplyBinder(f, m.T, m.value))
       /\ SameResult(andThen(m, <<"Ok">>).res, m)
       /\ \A f, g \in LawBinders : BinderAccepts(f \o g, m.T) =>
            SameResult(andThen(andThen(m, f).res, g).res, andThen(m, f \o g).res)
  /\ andThen(andThen(Ok("int", 5), <<"okInc">>).res, <<"okTimes10">>).res = Ok("int", 60)
  /\ andThen(Ok("int", 5), <<"okInc", "okTimes10">>).res = Ok("int", 60)

\* an andThen call whose callable ran and failed, so that a later stage
\* would be skipped
C8_Witness ==
  \E r \in Calls :
    /\ r.op = "andThen" /\ r.f = <<"nonzero">> /\ r.recv.is_ok /\ r.recv.value = 0
    /\ isErr(objs[r.dst])

\* C9: map obeys the functor laws on every container m: m.map(identity) is
\* m, and m.map(f).map(g) is m.map(x => g(f(x))); on a success holding v,
\* map(f) is a success holding f(v), e.g. Ok(10.0).map(x => x*2) holds 20.0.
C9_FunctorLaws ==
  /\ \A r \in Calls : r.op = "map" =>
       LET m == r.recv IN
       /\ objs[r.dst] = r.res
       /\ r.f = <<"identity">> => SameResult(r.res, m)
       /\ m.is_ok =>
            /\ r.called /\ isOk(r.res)
            /\ r.res.value = ApplyMapper(r.f, m.value)
       /\ \A g \in Mappers : MapperAccepts(r.f \o g, m.T) =>
            SameResult(map(r.res, g).res, map(m, r.f \o g).res)
       /\ SameResult(map(m, <<"identity">>).res, m)
       /\ \A f, g \in Mappers : MapperAccepts(f \o g, m.T) =>
            SameResult(map(map(m, f).res, g).res, map(m, f \o g).res)
  /\ map(Ok("double", 10), <<"twice">>).res = Ok("double", 20)

C9_Witness ==
  \E r \in Calls :
    /\ r.op = "map" /\ r.f = <<"twice">> /\ r.recv.is_ok /\ r.recv.value = 1
    /\ isOk(objs[r.dst]) /\ objs[r.dst].value = 2

\* C10: unwrapOrLog(context, fallback) and unwrapChecked() on an error
\* container perform exactly one log step and no termination step and
\* return: unwrapOrLog logs "RECOVERABLE: " + context prefix + stringified
\* error and returns fallback, unwrapChecked logs the fixed warning and
\* returns T{}; on a success container both return the payload unlogged.
C10_RecoverableExtractions ==
  \A r \in Calls : r.op \in {"unwrapOrLog", "unwrapChecked"} =>
    /\ r.outcome = "returned" /\ ~halted
    /\ IF r.recv.is_ok
         THEN r.steps = <<>> /\ r.result = r.recv.value
         ELSE /\ Len(r.steps) = 1 /\ IsLogStep(r.steps[1])
              /\ TerminateSteps(r) = {}
              /\ r.op = "unwrapOrLog" =>
                   /\ r.steps[1].msg = "RECOVERABLE: " \o ContextPrefix(r.arg[1])
                                         \o errorToString(etype, r.recv.error)
                   /\ r.result = r.arg[2]
              /\ r.op = "unwrapChecked" =>
                   /\ r.steps[1].msg = "Warning: Attempted to unwrapChecked an Err value"
                   /\ r.result = 0

C10_Witness ==
  \E r \in Calls :
    /\ r.op = "unwrapOrLog" /\ ~r.recv.is_ok /\ r.arg = <<"ctx", 1>>
    /\ r.terminated_with = Null /\ r.logged_with = Null
    /\ r.steps[1].kind = "stderr" /\ r.result = 1

\* C11: unwrapErr(context) on an error container returns the error payload
\* with no log step and no termination step; on a success container it
\* performs one log step with the message "FATAL: Attempted to unwrapErr an
\* Ok value - " + context prefix + "Attempted to unwrapErr an Ok value" and
\* then one termination step.
C11_UnwrapErr ==
  \A r \in Calls : r.op = "unwrapErr" =>
    IF ~r.recv.is_ok
      THEN r.steps = <<>> /\ r.outcome = "returned" /\ r.result = r.recv.error
      ELSE /\ Len(r.steps) = 2
           /\ IsLogStep(r.steps[1]) /\ IsTerminateStep(r.steps[2])
           /\ r.steps[1].msg = "FATAL: Attempted to unwrapErr an Ok value - "
                                  \o ContextPrefix(r.arg)
                                  \o "Attempted to unwrapErr an Ok value"

\* unwrapErr("ctx") on a success container, logged through the registered
\* hook with the context prefix in the message
C11_Witness ==
  \E r \in Calls :
    /\ r.op = "unwrapErr" /\ r.recv.is_ok /\ r.arg = "ctx"
    /\ Len(r.steps) = 2 /\ r.steps[1].kind = "log_hook"
    /\ r.steps[1].msg = "FATAL: Attempted to unwrapErr an Ok value - ctx: Attempted to unwrapErr an Ok value"

RegistryCalls == {"setLogHook", "setTerminateHook", "clearHooks"}

\* C12: the hook registry is partitioned per instantiation: setLogHook,
\* setTerminateHook and clearHooks on one instantiation leave log_hook,
\* terminate_hook and hook_mutex of every other instantiation unchanged, and
\* every log or termination step of an extraction on a container of
\* instantiation U consults the slots of U and no others, so the hooks of
\* Result<T, E> are not consulted for the Result<U, E> that map or andThen
\* produced from it.
C12_RegistryPerInstantiation ==
  /\ [](\A r \in Calls : r.op \in Extractions =>
          \A i \in 1..Len(r.steps) :
            LET st == r.steps[i] IN
            /\ st.T = r.recv.T
            /\ IsLogStep(st) =>
                 /\ st.hook = r.logged_with /\ st.hook = log_hook[r.recv.T]
                 /\ (st.kind = "stderr") = (log_hook[r.recv.T] = Null)
            /\ IsTerminateStep(st) =>
                 /\ st.hook = r.terminated_with /\ st.hook = terminate_hook[r.recv.T]
                 /\ (st.kind = "std::terminate") = (terminate_hook[r.recv.T] = Null))
  /\ [][\A t \in Threads :
          (ret[t] = NoRet /\ ret'[t] # NoRet /\ ret'[t].op \in RegistryCalls) =>
            \A U \in TTypes \ {ret'[t].T} :
              /\ log_hook'[U] = log_hook[U]
              /\ terminate_hook'[U] = terminate_hook[U]
              /\ hook_mutex'[U] = hook_mutex[U]]_vars

\* Result<int, E> has both hooks registered; the Result<double, E> that map
\* produced from an int error container (still in the other variable) is
\* unwrapped: the message goes to standard error and std::terminate ends
\* the process
C12_Witness ==
  \E r \in Calls : \E s \in Slots :
    /\ r.op = "unwrap" /\ ~r.recv.is_ok /\ r.recv.T = "double"
    /\ s # r.self /\ Live(s) /\ objs[s].T = "int" /\ ~objs[s].is_ok
    /\ log_hook["int"] = "logA" /\ terminate_hook["int"] = "silent"
    /\ log_hook["double"] = Null /\ terminate_hook["double"] = Null
    /\ r.steps[1].kind = "stderr" /\ r.steps[2].kind = "std::terminate" /\ halted

\* the members of the union that hold a constructed payload
IsRaw(x) == ToString(x) = ToString(Raw)
Constructed(c) == {m \in {"value", "error"} : ~IsRaw(c[m])}
\* the member the discriminant names
ActiveMember(c) == IF c.is_ok THEN "value" ELSE "error"
\* the discriminant and the constructed member agree
DiscriminantAgrees(c) == Constructed(c) = {ActiveMember(c)}
\* the destructor calls the step just taken made on the container in s
DestroyedIn(s) ==
  IF \E t \in Threads : /\ ret[t] = NoRet /\ ret'[t] # NoRet
                        /\ ret'[t].op \in {"~Result", "move-assign"} /\ ret'[t].self = s
    THEN (CHOOSE r \in {ret'[t] : t \in Threads} :
            r # NoRet /\ r.op \in {"~Result", "move-assign"} /\ r.self = s).destroyed
    ELSE <<>>

\* C14: over every sequence of factories, moves, combinators, matches,
\* extractions and destructions, a payload destructor is only called on the
\* member the discriminant names, which is the member constructed in that
\* container; a container has exactly that one member constructed as long
\* as it lives (moved-from residue included), a payload is constructed only
\* into raw storage, and a container's life ends, or its payload is
\* replaced, with exactly one destructor call on the constructed member, so
\* that no payload is destroyed twice and none is left behind.
C14_PayloadLifetime ==
  /\ [](/\ \A s \in Slots : Live(s) => DiscriminantAgrees(objs[s])
        /\ \A r \in Calls : r.op \in {"~Result", "move-assign"} =>
              /\ Len(r.destroyed) <= 1
              /\ \A i \in 1..Len(r.destroyed) :
                    /\ r.destroyed[i] = ActiveMember(r.recv)
                    /\ ~IsRaw(r.recv[r.destroyed[i]])
              /\ r.op = "~Result" =>
                    Len(r.destroyed) = 1 /\ Constructed(r.left) = {})
  /\ [][\A s \in Slots :
          /\ ~Live(s) => DestroyedIn(s) = <<>>
          /\ (Live(s) /\ ~Live(s)') => DestroyedIn(s) = <<ActiveMember(objs[s])>>
          /\ (Live(s) /\ Live(s)') =>
                IF DestroyedIn(s) = <<>>
                  THEN Constructed(objs'[s]) = Constructed(objs[s])
                  ELSE /\ DestroyedIn(s) = <<ActiveMember(objs[s])>>
                       /\ DiscriminantAgrees(objs'[s])]_vars

\* the moved-from residue of a consumed std::string error is destroyed with
\* its container
C14_Witness ==
  \E r \in Calls :
    /\ r.op = "~Result" /\ etype = "string" /\ ~r.recv.is_ok /\ r.recv.error = ""
    /\ r.destroyed = <<"error">> /\ ~Live(r.self)

\* C15: a = move(b) with a and b distinct destroys a's live payload exactly
\* once, then gives a the discriminant of b and a payload move-constructed
\* from b's, and leaves b's discriminant unchanged; a = move(a) destroys
\* nothing and leaves a's discriminant and payload unchanged.
C15_MoveAssignment ==
  \A r \in Calls : r.op = "move-assign" =>
    IF r.self # r.other
      THEN /\ r.destroyed = <<ActiveMember(r.recv)>>
           /\ objs[r.self].is_ok = r.from.is_ok
           /\ objs[r.self][ActiveMember(r.from)] = r.from[ActiveMember(r.from)]
           /\ Constructed(objs[r.self]) = {ActiveMember(r.from)}
           /\ objs[r.other].is_ok = r.from.is_ok
           /\ objs[r.other] \in MovedFrom(r.from)
      ELSE /\ r.destroyed = <<>>
           /\ objs[r.self] = r.recv

\* a success container is assigned from an error container: the value is
\* destroyed and the error constructed in its place
C15_Witness ==
  \E r \in Calls :
    /\ r.op = "move-assign" /\ r.self # r.other
    /\ r.recv.is_ok /\ ~r.from.is_ok
    /\ r.destroyed = <<"value">> /\ isErr(objs[r.self]) /\ isErr(objs[r.other])

\* the call took the fatal path of its operation
FatalCall(r) ==
  \/ r.op \in {"unwrap", "expect"} /\ ~r.recv.is_ok
  \/ r.op = "unwrapErr" /\ r.recv.is_ok

Inside(t, T) ==
  \E i \in 1..Len(stack[t]) : stack[t][i].T = T /\ stack[t][i].pc \in HoldingPcs
\* thread t takes, in this step, the step that reads a slot and invokes the
\* hook (or the default)
ConsultsSlot(t) ==
  /\ stack[t] # <<>>
  /\ Top(t).pc \in {"logError.locked", "terminateProgram.locked"}
  /\ stack'[t] # stack[t]

\* C13: for one instantiation at most one thread at a time is inside a
\* registry operation (setLogHook, setTerminateHook, clearHooks, logError,
\* terminateProgram): under every interleaving, a thread inside one holds
\* hook_mutex, every write of a slot, every read of a slot and every
\* invocation of a hook is made by the thread that holds it, and the lock
\* is held by nobody once the operation has returned or its hook has
\* thrown.
C13_RegistrySerialized ==
  /\ [](\A T \in TTypes :
          /\ Cardinality({t \in Workers : Inside(t, T)}) <= 1
          /\ \A t \in Workers : Inside(t, T) => hook_mutex[T] = t
          /\ hook_mutex[T] # Free =>
               /\ hook_mutex[T] \in Workers
               /\ Inside(hook_mutex[T], T) \/ halted)
  /\ [][/\ \A T \in TTypes :
             (log_hook'[T] # log_hook[T] \/ terminate_hook'[T] # terminate_hook[T]) =>
               /\ hook_mutex[T] \in Workers
               /\ Inside(hook_mutex[T], T)
               /\ stack'[hook_mutex[T]] # stack[hook_mutex[T]]
          /\ \A t \in Workers : ConsultsSlot(t) => hook_mutex[Top(t).T] = t]_vars

\* the termination hook of one thread has thrown, which released the lock,
\* and the other thread is inside an operation of the same instantiation
C13_Witness ==
  \E t, u \in Workers :
    /\ t # u /\ stack[t] # <<>> /\ stack[u] # <<>>
    /\ Top(t).pc = "threw" /\ Top(t).steps[2].hook = "throwing"
    /\ Inside(u, Top(t).T) /\ hook_mutex[Top(t).T] = u

\* thread t has left logError and not yet entered terminateProgram's scope
BetweenLogAndTerminate(t) ==
  stack[t] # <<>> /\ Top(t).op = "unwrap" /\ Top(t).pc = "terminateProgram"

\* C17: the log step and the termination step of a fatal extraction are two
\* critical sections: between them the thread does not hold hook_mutex, so
\* another thread's setLogHook, setTerminateHook, clearHooks or log step can
\* run there, and each step consults its slot as it is during its own
\* critical section; a thread can thus log through a registered hook and
\* terminate through another hook or through std::terminate.
C17_TwoCriticalSections ==
  /\ [](\A t \in Workers : BetweenLogAndTerminate(t) =>
          /\ Len(Top(t).steps) = 1 /\ IsLogStep(Top(t).steps[1])
          /\ hook_mutex[Top(t).T] # t)
  /\ [][\A t \in Workers : ConsultsSlot(t) =>
          LET T == Top(t).T
              step == stack'[t][1].steps[Len(stack'[t][1].steps)]
          IN  IF Top(t).pc = "logError.locked"
                THEN /\ IsLogStep(step) /\ step.hook = log_hook[T]
                     /\ (step.kind = "stderr") = (log_hook[T] = Null)
                ELSE /\ IsTerminateStep(step) /\ step.hook = terminate_hook[T]
                     /\ (step.kind = "std::terminate") = (terminate_hook[T] = Null)]_vars

\* a thread has logged through the registered log hook while a termination
\* hook was registered; before it enters terminateProgram the other thread
\* is inside clearHooks of the same instantiation
C17_Witness ==
  \E t, u \in Workers :
    /\ t # u /\ BetweenLogAndTerminate(t) /\ stack[u] # <<>>
    /\ Top(t).steps[1].kind = "log_hook" /\ terminate_hook[Top(t).T] = "silent"
    /\ Top(u).op = "clearHooks" /\ Top(u).T = Top(t).T /\ Top(u).pc = "locked"

\* the call of a hook of thread t is about to lock
NestedWaiting(t) == Len(stack[t]) >= 2 /\ Top(t).pc \in WaitingPcs
\* the frame whose hook made that call
HookFrame(t) == stack[t][Len(stack[t]) - 1]
\* thread u waits for the lock of T
WaitsFor(u, T) == stack[u] # <<>> /\ Top(u).pc \in WaitingPcs /\ Top(u).T = T
\* thread t waits, in the call of a hook, for a lock it holds itself
SelfBlocked(t) == NestedWaiting(t) /\ hook_mutex[Top(t).T] = t
\* thread t waits for a lock that will never be released: it holds the lock
\* itself, or the holder waits for a lock it holds itself, or the holder
\* waits for a lock that t holds
Stuck(t) ==
  /\ ~halted /\ stack[t] # <<>> /\ Top(t).pc \in WaitingPcs
  /\ LET h == hook_mutex[Top(t).T]
     IN  \/ h = t
         \/ /\ h \in Workers \ {t}
            /\ \/ SelfBlocked(h)
               \/ stack[h] # <<>> /\ Top(h).pc \in WaitingPcs /\ hook_mutex[Top(h).T] = t

=============================================================================
